---- MODULE Spec2Model ----
(***************************************************************************)
(* The lookup-tree compiler of extraterm-font-ligatures                    *)
(* (src/packages/extraterm-font-ligatures/src/processors/helper.ts), and   *)
(* Color, TextInputPopOver, BulkFileStorage and ListPicker's ContentModel, *)
(* each under a specification of its own.                                  *)
(*                                                                         *)
(* A glyph spec (number | [number, number]) is a record                    *)
(*   [isArray |-> BOOLEAN, lo |-> Nat, hi |-> Nat]                         *)
(* a single glyph ID g being [isArray |-> FALSE, lo |-> g, hi |-> g].      *)
(* A substitution (number | null) is a glyph ID or null.                   *)
(***************************************************************************)
EXTENDS Integers, Sequences, FiniteSets, TLC

VARIABLES
  pc,              \* position of the driver: "call"/"done" or "idle"/"rule"
  call,            \* the arguments of the pure function under check
  ret,             \* the value it returned
  heap,            \* every LookupTreeEntry allocated so far, by identity
  currentEntries,  \* the EntryMeta[] threaded through one rule
  position,        \* index of the next input position of the rule
  phase,           \* zone of the last step of the rule
  lookupRecords,   \* the SubstitutionLookupRecord[] of the rule
  rulesDone,       \* rules compiled into the root so far
  stepsDone,       \* steps taken so far (all rules)
  last,            \* the last step: its kind, arguments and the state before it
  rules,           \* per rule started: its records and the steps taken for it
  object,          \* the fields of the object under check (pop-over, storage, model)
  later,           \* the callbacks given to doLater that have not run yet
  promises,        \* every promise show() returned, by identity
  disk             \* the paths that have a file on disk

vars == <<pc, call, ret, heap, currentEntries, position, phase, lookupRecords,
          rulesDone, stepsDone, last, rules, object, later, promises, disk>>

\* The variables of the objects outside the lookup-tree compiler.
objects == <<object, later, promises, disk>>

NoObjects == object = <<>> /\ later = <<>> /\ promises = <<>> /\ disk = {}

----------------------------------------------------------------------------
(* Bounds *)

MaxLen == 3

MaxRecords == 2

MaxRules == 2

MaxSteps == 2

MaxIndex == 1

MaxEntries == 12

----------------------------------------------------------------------------
(* Values *)

null == -1

Single(g) == [isArray |-> FALSE, lo |-> g, hi |-> g]

Range(lo, hi) == [isArray |-> TRUE, lo |-> lo, hi |-> hi]

IsArray(glyph) == glyph.isArray

SeqsUpTo(S, n) == UNION { [1..k -> S] : k \in 0..n }

----------------------------------------------------------------------------
(* dedupGlyphs *)

RECURSIVE dedupLoop(_, _, _, _, _)
dedupLoop(glyphs, i, result, singleGlyphs, pairGlyphs) ==
  IF i > Len(glyphs) THEN result
  ELSE LET glyph == glyphs[i] IN
    IF IsArray(glyph)
    THEN LET found == \E pair \in pairGlyphs :
                         pair[1] = glyph.lo /\ pair[2] = glyph.hi
         IN IF ~found
            THEN dedupLoop(glyphs, i + 1, Append(result, glyph), singleGlyphs,
                           pairGlyphs \cup {<<glyph.lo, glyph.hi>>})
            ELSE dedupLoop(glyphs, i + 1, result, singleGlyphs, pairGlyphs)
    ELSE IF glyph.lo \notin singleGlyphs
         THEN dedupLoop(glyphs, i + 1, Append(result, glyph),
                        singleGlyphs \cup {glyph.lo}, pairGlyphs)
         ELSE dedupLoop(glyphs, i + 1, result, singleGlyphs, pairGlyphs)

\* Mutant: a range is taken for a duplicate when only its low bound was seen.
RECURSIVE dedupLoopLowOnly(_, _, _, _, _)
dedupLoopLowOnly(glyphs, i, result, singleGlyphs, pairGlyphs) ==
  IF i > Len(glyphs) THEN result
  ELSE LET glyph == glyphs[i] IN
    IF IsArray(glyph)
    THEN LET found == \E pair \in pairGlyphs : pair[1] = glyph.lo
         IN IF ~found
            THEN dedupLoopLowOnly(glyphs, i + 1, Append(result, glyph), singleGlyphs,
                                  pairGlyphs \cup {<<glyph.lo, glyph.hi>>})
            ELSE dedupLoopLowOnly(glyphs, i + 1, result, singleGlyphs, pairGlyphs)
    ELSE IF glyph.lo \notin singleGlyphs
         THEN dedupLoopLowOnly(glyphs, i + 1, Append(result, glyph),
                               singleGlyphs \cup {glyph.lo}, pairGlyphs)
         ELSE dedupLoopLowOnly(glyphs, i + 1, result, singleGlyphs, pairGlyphs)

dedupGlyphsLowOnly(glyphs) ==
  IF Len(glyphs) < 2 THEN glyphs ELSE dedupLoopLowOnly(glyphs, 1, <<>>, {}, {})

\* Mutant: result.unshift instead of result.push.
RECURSIVE dedupLoopUnshift(_, _, _, _, _)
dedupLoopUnshift(glyphs, i, result, singleGlyphs, pairGlyphs) ==
  IF i > Len(glyphs) THEN result
  ELSE LET glyph == glyphs[i] IN
    IF IsArray(glyph)
    THEN LET found == \E pair \in pairGlyphs :
                         pair[1] = glyph.lo /\ pair[2] = glyph.hi
         IN IF ~found
            THEN dedupLoopUnshift(glyphs, i + 1, <<glyph>> \o result, singleGlyphs,
                                  pairGlyphs \cup {<<glyph.lo, glyph.hi>>})
            ELSE dedupLoopUnshift(glyphs, i + 1, result, singleGlyphs, pairGlyphs)
    ELSE IF glyph.lo \notin singleGlyphs
         THEN dedupLoopUnshift(glyphs, i + 1, <<glyph>> \o result,
                               singleGlyphs \cup {glyph.lo}, pairGlyphs)
         ELSE dedupLoopUnshift(glyphs, i + 1, result, singleGlyphs, pairGlyphs)

dedupGlyphsUnshift(glyphs) ==
  IF Len(glyphs) < 2 THEN glyphs ELSE dedupLoopUnshift(glyphs, 1, <<>>, {}, {})

dedupGlyphs(glyphs) ==
  IF Len(glyphs) < 2 THEN glyphs ELSE dedupLoop(glyphs, 1, <<>>, {}, {})

----------------------------------------------------------------------------
(* The lookups table and the single-substitution subtables.                *)
(* A subtable is the function from the glyphs it covers to their outputs.  *)

SubstitutionLookupRecord(sequenceIndex, lookupListIndex) ==
  [sequenceIndex |-> sequenceIndex, lookupListIndex |-> lookupListIndex]

Lookups ==
  << [subtables |-> << (65 :> 66) >>],
     [subtables |-> << (65 :> 67), (65 :> 68) @@ (70 :> 71) >>],
     [subtables |-> << [g \in 10..20 |-> g + 1] >>],
     [subtables |-> << (15 :> 100) @@ (16 :> 101) @@ (17 :> 102) >>] >>

getIndividualSubstitutionGlyph(table, glyphId) ==
  IF glyphId \in DOMAIN table THEN table[glyphId] ELSE null

\* The range is cut into its maximal runs of glyphs with one outcome; a run of
\* one glyph is keyed by the glyph, a longer run by its sub-range.
RECURSIVE rangeRuns(_, _, _, _, _)
rangeRuns(table, replacementStart, search, high, result) ==
  LET currentReplacement == getIndividualSubstitutionGlyph(table, replacementStart)
      key == IF search - replacementStart <= 1
             THEN Single(replacementStart)
             ELSE Range(replacementStart, search - 1)
  IN IF search > high
     THEN Append(result, <<key, currentReplacement>>)
     ELSE IF getIndividualSubstitutionGlyph(table, search) # currentReplacement
          THEN rangeRuns(table, search, search + 1, high,
                         Append(result, <<key, currentReplacement>>))
          ELSE rangeRuns(table, replacementStart, search + 1, high, result)

getRangeSubstitutionGlyphs(table, range) ==
  rangeRuns(table, range.lo, range.lo + 1, range.hi, <<>>)

----------------------------------------------------------------------------
(* getSubstitutionAtPositionRange, getSubstitutionAtPosition.              *)
(* A Map<number | [number, number], number | null> is the sequence of its  *)
(* <<key, value>> pairs in insertion order.                                *)

filterBySequenceIndex(substitutions, index) ==
  SelectSeq(substitutions, LAMBDA s : s.sequenceIndex = index)

everyNotNull(sub) == \A k \in 1..Len(sub) : sub[k][2] # null

RECURSIVE scanSubtablesRange(_, _, _)
scanSubtablesRange(subtables, j, range) ==
  IF j > Len(subtables) THEN [returned |-> FALSE, sub |-> <<>>]
  ELSE LET sub == getRangeSubstitutionGlyphs(subtables[j], range)
       IN IF ~everyNotNull(sub)
          THEN [returned |-> TRUE, sub |-> sub]
          ELSE scanSubtablesRange(subtables, j + 1, range)

RECURSIVE scanRecordsRange(_, _, _, _)
scanRecordsRange(filtered, lookups, i, range) ==
  IF i > Len(filtered) THEN [returned |-> FALSE, sub |-> <<>>]
  ELSE LET r == scanSubtablesRange(
                  lookups[filtered[i].lookupListIndex + 1].subtables, 1, range)
       IN IF r.returned THEN r
          ELSE scanRecordsRange(filtered, lookups, i + 1, range)

\* Mutant: a mapping is returned when every glyph of the range is substituted.
RECURSIVE scanSubtablesRangeAccept(_, _, _)
scanSubtablesRangeAccept(subtables, j, range) ==
  IF j > Len(subtables) THEN [returned |-> FALSE, sub |-> <<>>]
  ELSE LET sub == getRangeSubstitutionGlyphs(subtables[j], range)
       IN IF everyNotNull(sub)
          THEN [returned |-> TRUE, sub |-> sub]
          ELSE scanSubtablesRangeAccept(subtables, j + 1, range)

RECURSIVE scanRecordsRangeAccept(_, _, _, _)
scanRecordsRangeAccept(filtered, lookups, i, range) ==
  IF i > Len(filtered) THEN [returned |-> FALSE, sub |-> <<>>]
  ELSE LET r == scanSubtablesRangeAccept(
                  lookups[filtered[i].lookupListIndex + 1].subtables, 1, range)
       IN IF r.returned THEN r
          ELSE scanRecordsRangeAccept(filtered, lookups, i + 1, range)

getSubstitutionAtPositionRangeAccept(substitutions, lookups, index, range) ==
  LET r == scanRecordsRangeAccept(filterBySequenceIndex(substitutions, index),
                                  lookups, 1, range)
  IN IF r.returned THEN r.sub ELSE << <<range, null>> >>

\* Mutant: the fall-through returns an empty Map instead of {range -> null}.
getSubstitutionAtPositionRangeEmpty(substitutions, lookups, index, range) ==
  LET r == scanRecordsRange(filterBySequenceIndex(substitutions, index),
                            lookups, 1, range)
  IN IF r.returned THEN r.sub ELSE <<>>

getSubstitutionAtPositionRange(substitutions, lookups, index, range) ==
  LET r == scanRecordsRange(filterBySequenceIndex(substitutions, index),
                            lookups, 1, range)
  IN IF r.returned THEN r.sub ELSE << <<range, null>> >>

RECURSIVE scanSubtables(_, _, _)
scanSubtables(subtables, j, glyphId) ==
  IF j > Len(subtables) THEN null
  ELSE LET sub == getIndividualSubstitutionGlyph(subtables[j], glyphId)
       IN IF sub # null THEN sub ELSE scanSubtables(subtables, j + 1, glyphId)

RECURSIVE scanRecords(_, _, _, _)
scanRecords(filtered, lookups, i, glyphId) ==
  IF i > Len(filtered) THEN null
  ELSE LET sub == scanSubtables(
                    lookups[filtered[i].lookupListIndex + 1].subtables, 1, glyphId)
       IN IF sub # null THEN sub
          ELSE scanRecords(filtered, lookups, i + 1, glyphId)

\* Mutant: the records are not filtered by sequenceIndex.
getSubstitutionAtPositionNoFilter(substitutions, lookups, index, glyphId) ==
  scanRecords(substitutions, lookups, 1, glyphId)

getSubstitutionAtPosition(substitutions, lookups, index, glyphId) ==
  scanRecords(filterBySequenceIndex(substitutions, index), lookups, 1, glyphId)

----------------------------------------------------------------------------
(* Faults.  lookups[i] is undefined for an index outside the table, and    *)
(* reading its subtables throws; the scan throws when it comes to such a   *)
(* record, and not after an earlier record made it return.                 *)

InTable(lookups, lookupListIndex) == (lookupListIndex + 1) \in DOMAIN lookups

RECURSIVE scanRecordsThrows(_, _, _, _)
scanRecordsThrows(filtered, lookups, i, glyphId) ==
  IF i > Len(filtered) THEN FALSE
  ELSE IF ~InTable(lookups, filtered[i].lookupListIndex) THEN TRUE
  ELSE IF scanSubtables(lookups[filtered[i].lookupListIndex + 1].subtables,
                        1, glyphId) # null
       THEN FALSE
       ELSE scanRecordsThrows(filtered, lookups, i + 1, glyphId)

\* Mutant: every record of the position is validated before the scan.
getSubstitutionAtPositionThrowsAny(substitutions, lookups, index, glyphId) ==
  \E i \in 1..Len(substitutions) :
    /\ substitutions[i].sequenceIndex = index
    /\ ~InTable(lookups, substitutions[i].lookupListIndex)

getSubstitutionAtPositionThrows(substitutions, lookups, index, glyphId) ==
  scanRecordsThrows(filterBySequenceIndex(substitutions, index), lookups, 1, glyphId)

RECURSIVE scanRecordsRangeThrows(_, _, _, _)
scanRecordsRangeThrows(filtered, lookups, i, range) ==
  IF i > Len(filtered) THEN FALSE
  ELSE IF ~InTable(lookups, filtered[i].lookupListIndex) THEN TRUE
  ELSE IF scanSubtablesRange(lookups[filtered[i].lookupListIndex + 1].subtables,
                             1, range).returned
       THEN FALSE
       ELSE scanRecordsRangeThrows(filtered, lookups, i + 1, range)

getSubstitutionAtPositionRangeThrows(substitutions, lookups, index, range) ==
  scanRecordsRangeThrows(filterBySequenceIndex(substitutions, index), lookups, 1, range)

----------------------------------------------------------------------------
(* The tree.  A LookupTreeEntry is known by its identity, its index in     *)
(* heap; a branch-point (LookupTree) belongs to the entry that holds it.   *)

NoBranch == [present |-> FALSE, individual |-> <<>>, range |-> <<>>]

NewBranch == [present |-> TRUE, individual |-> <<>>, range |-> <<>>]

NewEntry == [forward |-> NoBranch, reverse |-> NoBranch]

Root == 1

\* Mutant: a key that has a child keeps it.
MapSetIfAbsent(m, k, v) ==
  [x \in DOMAIN m \cup {k} |-> IF x \in DOMAIN m THEN m[x] ELSE v]

MapSet(m, k, v) == [x \in DOMAIN m \cup {k} |-> IF x = k THEN v ELSE m[x]]

\* The statements of a loop body run before its next iteration: st, the heap
\* with the nextEntries and calls built so far, is a value by then (the heap
\* always holds the root).
Evaluated(st) == Len(st.heap) > 0 /\ Len(st.nextEntries) >= 0 /\ Len(st.calls) >= 0

EntryMeta(entry, substitutions) ==
  [entry |-> entry, substitutions |-> substitutions]

----------------------------------------------------------------------------
(* getInputTree(tree, ...), tree being the forward branch-point of node.   *)
(* Returns the heap after the call and the result array.                   *)

\* Mutant: one entry is made before the loop and linked under every sub-range.
RECURSIVE getInputTreeRangeShared(_, _, _, _, _)
getInputTreeRangeShared(h, node, subs, k, result) ==
  IF k > Len(subs) THEN [heap |-> h, result |-> result]
  ELSE LET range == subs[k][1]
           substitution == subs[k][2]
           entry == IF k = 1 THEN Len(h) + 1 ELSE result[1].entry
           h1 == IF k = 1 THEN Append(h, NewEntry) ELSE h
           h2 == IF IsArray(range)
                 THEN [h1 EXCEPT ![node].forward.range =
                         Append(@, [range |-> range, entry |-> entry])]
                 ELSE [Append(h1, NewEntry) EXCEPT ![node].forward.individual =
                         MapSet(@, range.lo, Len(h1) + 1)]
           result1 == Append(result, [entry |-> entry, substitution |-> substitution])
       IN IF Len(h2) > 0 /\ Len(result1) > 0
          THEN getInputTreeRangeShared(h2, node, subs, k + 1, result1)
          ELSE [heap |-> h2, result |-> result1]

RECURSIVE getInputTreeRange(_, _, _, _, _)
getInputTreeRange(h, node, subs, k, result) ==
  IF k > Len(subs) THEN [heap |-> h, result |-> result]
  ELSE LET range == subs[k][1]
           substitution == subs[k][2]
           entry == Len(h) + 1
           h1 == Append(h, NewEntry)
           h2 == IF IsArray(range)
                 THEN [h1 EXCEPT ![node].forward.range =
                         Append(@, [range |-> range, entry |-> entry])]
                 ELSE [Append(h1, NewEntry) EXCEPT ![node].forward.individual =
                         MapSet(@, range.lo, Len(h1) + 1)]
           result1 == Append(result, [entry |-> entry, substitution |-> substitution])
       IN IF Len(h2) > 0 /\ Len(result1) > 0
          THEN getInputTreeRange(h2, node, subs, k + 1, result1)
          ELSE [heap |-> h2, result |-> result1]

\* Mutant: the entry returned for a single glyph is not the entry put in the map.
getInputTreeUnlinked(h, node, substitutions, lookups, inputIndex, glyphId) ==
  IF ~IsArray(glyphId)
  THEN LET entry == Len(h) + 1
           h1 == [Append(Append(h, NewEntry), NewEntry)
                    EXCEPT ![node].forward.individual = MapSet(@, glyphId.lo, entry + 1)]
       IN [heap |-> h1,
           result |-> << [entry |-> entry,
                          substitution |-> getSubstitutionAtPosition(
                            substitutions, lookups, inputIndex, glyphId.lo)] >>]
  ELSE getInputTreeRange(h, node,
         getSubstitutionAtPositionRange(substitutions, lookups, inputIndex, glyphId),
         1, <<>>)

getInputTree(h, node, substitutions, lookups, inputIndex, glyphId) ==
  IF ~IsArray(glyphId)
  THEN LET entry == Len(h) + 1
           h1 == [Append(h, NewEntry) EXCEPT ![node].forward.individual =
                    MapSet(@, glyphId.lo, entry)]
       IN [heap |-> h1,
           result |-> << [entry |-> h1[node].forward.individual[glyphId.lo],
                          substitution |-> getSubstitutionAtPosition(
                            substitutions, lookups, inputIndex, glyphId.lo)] >>]
  ELSE getInputTreeRange(h, node,
         getSubstitutionAtPositionRange(substitutions, lookups, inputIndex, glyphId),
         1, <<>>)

----------------------------------------------------------------------------
(* processInputPosition.  st is [heap, nextEntries, calls]; calls records  *)
(* every getInputTree call of the step: parent entry, glyph and result.    *)

RECURSIVE inputGlyphs(_, _, _, _, _, _, _)
inputGlyphs(st, i, currentEntry, deduped, j, pos, lookupRecs) ==
  IF j > Len(deduped) THEN st
  ELSE LET r == getInputTree(st.heap, currentEntry.entry, lookupRecs, Lookups,
                             pos, deduped[j])
           mapped == [k \in 1..Len(r.result) |->
                        EntryMeta(r.result[k].entry,
                                  Append(currentEntry.substitutions,
                                         r.result[k].substitution))]
           st1 == [heap |-> r.heap,
                   nextEntries |-> st.nextEntries \o mapped,
                   calls |-> Append(st.calls,
                               [parent |-> i, glyph |-> deduped[j],
                                result |-> r.result])]
       IN IF Evaluated(st1)
          THEN inputGlyphs(st1, i, currentEntry, deduped, j + 1, pos, lookupRecs)
          ELSE st1

\* Mutant: the forward branch-point is made only when the leaf has none.
RECURSIVE inputEntriesKeep(_, _, _, _, _, _)
inputEntriesKeep(st, glyphs, pos, entries, i, lookupRecs) ==
  IF i > Len(entries) THEN st
  ELSE LET currentEntry == entries[i]
           st1 == IF st.heap[currentEntry.entry].forward.present THEN st
                  ELSE [st EXCEPT !.heap[currentEntry.entry].forward = NewBranch]
           st2 == inputGlyphs(st1, i, currentEntry, dedupGlyphs(glyphs), 1, pos,
                              lookupRecs)
       IN IF Evaluated(st2)
          THEN inputEntriesKeep(st2, glyphs, pos, entries, i + 1, lookupRecs)
          ELSE st2

RECURSIVE inputEntries(_, _, _, _, _, _)
inputEntries(st, glyphs, pos, entries, i, lookupRecs) ==
  IF i > Len(entries) THEN st
  ELSE LET currentEntry == entries[i]
           st1 == [st EXCEPT !.heap[currentEntry.entry].forward = NewBranch]
           st2 == inputGlyphs(st1, i, currentEntry, dedupGlyphs(glyphs), 1, pos,
                              lookupRecs)
       IN IF Evaluated(st2)
          THEN inputEntries(st2, glyphs, pos, entries, i + 1, lookupRecs)
          ELSE st2

processInputPosition(h, glyphs, pos, entries, lookupRecs) ==
  inputEntries([heap |-> h, nextEntries |-> <<>>, calls |-> <<>>],
               glyphs, pos, entries, 1, lookupRecs)

----------------------------------------------------------------------------
(* processLookaheadPosition *)

RECURSIVE lookaheadGlyphs(_, _, _, _, _)
lookaheadGlyphs(st, i, currentEntry, deduped, j) ==
  IF j > Len(deduped) THEN st
  ELSE LET glyph == deduped[j]
           entry == Len(st.heap) + 1
           h1 == Append(st.heap, NewEntry)
           h2 == IF ~h1[currentEntry.entry].forward.present
                 THEN [h1 EXCEPT ![currentEntry.entry].forward = NewBranch]
                 ELSE h1
           h3 == IF IsArray(glyph)
                 THEN [h2 EXCEPT ![currentEntry.entry].forward.range =
                         Append(@, [entry |-> entry, range |-> glyph])]
                 ELSE [h2 EXCEPT ![currentEntry.entry].forward.individual =
                         MapSet(@, glyph.lo, entry)]
           st1 == [heap |-> h3,
                   nextEntries |-> Append(st.nextEntries,
                                     EntryMeta(entry, currentEntry.substitutions)),
                   calls |-> Append(st.calls,
                               [parent |-> i, glyph |-> glyph,
                                result |-> << [entry |-> entry,
                                               substitution |-> null] >>])]
       IN IF Evaluated(st1)
          THEN lookaheadGlyphs(st1, i, currentEntry, deduped, j + 1)
          ELSE st1

RECURSIVE lookaheadEntries(_, _, _, _)
lookaheadEntries(st, glyphs, entries, i) ==
  IF i > Len(entries) THEN st
  ELSE LET st1 == lookaheadGlyphs(st, i, entries[i], dedupGlyphs(glyphs), 1)
       IN IF Evaluated(st1)
          THEN lookaheadEntries(st1, glyphs, entries, i + 1)
          ELSE st1

\* Mutant: a lookahead step appends null to every leaf's substitutions.
processLookaheadPositionAppend(h, glyphs, entries) ==
  LET st == lookaheadEntries([heap |-> h, nextEntries |-> <<>>, calls |-> <<>>],
                             glyphs, entries, 1)
  IN [st EXCEPT !.nextEntries =
        [n \in 1..Len(st.nextEntries) |->
           EntryMeta(st.nextEntries[n].entry,
                     Append(st.nextEntries[n].substitutions, null))]]

processLookaheadPosition(h, glyphs, entries) ==
  lookaheadEntries([heap |-> h, nextEntries |-> <<>>, calls |-> <<>>],
                   glyphs, entries, 1)

----------------------------------------------------------------------------
(* processBacktrackPosition *)

RECURSIVE backtrackGlyphs(_, _, _, _, _)
backtrackGlyphs(st, i, currentEntry, deduped, j) ==
  IF j > Len(deduped) THEN st
  ELSE LET glyph == deduped[j]
           entry == Len(st.heap) + 1
           h1 == Append(st.heap, NewEntry)
           h2 == IF ~h1[currentEntry.entry].reverse.present
                 THEN [h1 EXCEPT ![currentEntry.entry].reverse = NewBranch]
                 ELSE h1
           h3 == IF IsArray(glyph)
                 THEN [h2 EXCEPT ![currentEntry.entry].reverse.range =
                         Append(@, [entry |-> entry, range |-> glyph])]
                 ELSE [h2 EXCEPT ![currentEntry.entry].reverse.individual =
                         MapSet(@, glyph.lo, entry)]
           st1 == [heap |-> h3,
                   nextEntries |-> Append(st.nextEntries,
                                     EntryMeta(entry, currentEntry.substitutions)),
                   calls |-> Append(st.calls,
                               [parent |-> i, glyph |-> glyph,
                                result |-> << [entry |-> entry,
                                               substitution |-> null] >>])]
       IN IF Evaluated(st1)
          THEN backtrackGlyphs(st1, i, currentEntry, deduped, j + 1)
          ELSE st1

RECURSIVE backtrackEntries(_, _, _, _)
backtrackEntries(st, glyphs, entries, i) ==
  IF i > Len(entries) THEN st
  ELSE LET st1 == backtrackGlyphs(st, i, entries[i], dedupGlyphs(glyphs), 1)
       IN IF Evaluated(st1)
          THEN backtrackEntries(st1, glyphs, entries, i + 1)
          ELSE st1

\* Mutant: the backtrack step extends the forward branch-point.
processBacktrackPositionForward(h, glyphs, entries) ==
  lookaheadEntries([heap |-> h, nextEntries |-> <<>>, calls |-> <<>>],
                   glyphs, entries, 1)

processBacktrackPosition(h, glyphs, entries) ==
  backtrackEntries([heap |-> h, nextEntries |-> <<>>, calls |-> <<>>],
                   glyphs, entries, 1)

----------------------------------------------------------------------------
(* Compiling rules into one root: the backtrack positions of a rule, then  *)
(* its input positions, then its lookahead positions.                      *)

CandidateLists ==
  { <<>>,
    <<Single(65), Single(70)>>,
    <<Range(10, 20)>>,
    <<Single(15), Range(10, 20), Single(15)>>,
    <<Range(15, 17), Range(10, 20), Range(15, 17)>> }

RuleRecords ==
  { <<>>,
    <<SubstitutionLookupRecord(0, 0), SubstitutionLookupRecord(1, 1)>>,
    <<SubstitutionLookupRecord(0, 2), SubstitutionLookupRecord(0, 3)>> }

NoStep(h) ==
  [kind |-> "none", glyphs |-> <<>>, before |-> <<>>, heapBefore |-> h,
   calls |-> <<>>, position |-> 0]

PureIdle == pc = "idle" /\ call = <<>> /\ ret = <<>>

TreeIdle ==
  /\ heap = <<NewEntry>>
  /\ currentEntries = <<>>
  /\ position = 0
  /\ phase = "none"
  /\ lookupRecords = <<>>
  /\ rulesDone = 0
  /\ stepsDone = 0
  /\ last = NoStep(<<NewEntry>>)
  /\ rules = <<>>

Init == PureIdle /\ TreeIdle /\ NoObjects

\* Mutant: a rule starts by giving the root a new forward branch-point.
StartRuleReset ==
  /\ pc = "idle"
  /\ rulesDone < MaxRules
  /\ \E records \in RuleRecords : lookupRecords' = records
  /\ pc' = "rule"
  /\ heap' = [heap EXCEPT ![Root].forward = NewBranch]
  /\ currentEntries' = << EntryMeta(Root, <<>>) >>
  /\ position' = 0
  /\ phase' = "start"
  /\ last' = [NoStep(heap) EXCEPT !.kind = "start"]
  /\ rules' = Append(rules, [records |-> lookupRecords', steps |-> <<>>])
  /\ UNCHANGED <<call, ret, rulesDone, stepsDone>>
  /\ UNCHANGED objects

StartRule ==
  /\ pc = "idle"
  /\ rulesDone < MaxRules
  /\ \E records \in RuleRecords : lookupRecords' = records
  /\ pc' = "rule"
  /\ currentEntries' = << EntryMeta(Root, <<>>) >>
  /\ position' = 0
  /\ phase' = "start"
  /\ last' = [NoStep(heap) EXCEPT !.kind = "start"]
  /\ rules' = Append(rules, [records |-> lookupRecords', steps |-> <<>>])
  /\ UNCHANGED <<call, ret, heap, rulesDone, stepsDone>>
  /\ UNCHANGED objects

Step(kind, glyphs, st) ==
  /\ Len(st.nextEntries) <= MaxEntries
  /\ heap' = st.heap
  /\ currentEntries' = st.nextEntries
  /\ phase' = kind
  /\ stepsDone' = stepsDone + 1
  /\ last' = [kind |-> kind, glyphs |-> glyphs, before |-> currentEntries,
              heapBefore |-> heap, calls |-> st.calls, position |-> position]
  /\ rules' = [rules EXCEPT ![Len(rules)].steps =
                 Append(@, [kind |-> kind, glyphs |-> glyphs,
                            leaves |-> st.nextEntries])]
  /\ UNCHANGED <<pc, call, ret, lookupRecords, rulesDone>>
  /\ UNCHANGED objects

BacktrackStep ==
  /\ pc = "rule"
  /\ stepsDone < MaxSteps
  /\ phase \in {"start", "backtrack"}
  /\ \E glyphs \in CandidateLists :
       Step("backtrack", glyphs, processBacktrackPosition(heap, glyphs, currentEntries))
  /\ UNCHANGED position

InputStep ==
  /\ pc = "rule"
  /\ stepsDone < MaxSteps
  /\ phase \in {"start", "backtrack", "input"}
  /\ \E glyphs \in CandidateLists :
       Step("input", glyphs,
            processInputPosition(heap, glyphs, position, currentEntries, lookupRecords))
  /\ position' = position + 1

LookaheadStep ==
  /\ pc = "rule"
  /\ stepsDone < MaxSteps
  /\ \E glyphs \in CandidateLists :
       Step("lookahead", glyphs, processLookaheadPosition(heap, glyphs, currentEntries))
  /\ UNCHANGED position

EndRule ==
  /\ pc = "rule"
  /\ pc' = "idle"
  /\ rulesDone' = rulesDone + 1
  /\ UNCHANGED <<call, ret, heap, currentEntries, position, phase, lookupRecords,
                 stepsDone, last, rules>>
  /\ UNCHANGED objects

Next == StartRule \/ BacktrackStep \/ InputStep \/ LookaheadStep \/ EndRule

Spec == Init /\ [][Next]_vars

----------------------------------------------------------------------------
(* dedupGlyphs applied to every list of at most MaxLen glyph specs, and    *)
(* applied again to its own output.                                        *)

DedupSpecs == { Single(65), Single(10), Range(10, 20), Range(10, 14) }

InitDedup ==
  /\ TreeIdle
  /\ pc = "call"
  /\ \E glyphs \in SeqsUpTo(DedupSpecs, MaxLen) : call = [glyphs |-> glyphs, input |-> glyphs]
  /\ ret = <<>>
  /\ NoObjects

Dedup ==
  /\ pc = "call"
  /\ ret' = dedupGlyphs(call.glyphs)
  /\ pc' = "done"
  /\ UNCHANGED <<call, heap, currentEntries, position, phase, lookupRecords,
                 rulesDone, stepsDone, last, rules>>
  /\ UNCHANGED objects

DedupAgain ==
  /\ pc = "done"
  /\ call' = [call EXCEPT !.glyphs = ret]
  /\ ret' = dedupGlyphs(ret)
  /\ pc' = "again"
  /\ UNCHANGED <<heap, currentEntries, position, phase, lookupRecords,
                 rulesDone, stepsDone, last, rules>>
  /\ UNCHANGED objects

NextDedup == Dedup \/ DedupAgain

SpecDedup == InitDedup /\ [][NextDedup]_vars

----------------------------------------------------------------------------
(* The resolver applied to every list of at most MaxRecords records, every *)
(* position up to MaxIndex and a glyph or a range.                         *)

QuerySpecs ==
  { Single(65), Single(70), Single(15),
    Range(10, 20), Range(15, 17), Range(10, 14) }

AllRecords ==
  { SubstitutionLookupRecord(s, l) : s \in 0..MaxIndex, l \in 0..(Len(Lookups) - 1) }

InitResolve ==
  /\ TreeIdle
  /\ pc = "call"
  /\ \E substitutions \in SeqsUpTo(AllRecords, MaxRecords), index \in 0..MaxIndex,
        glyphId \in QuerySpecs :
       call = [substitutions |-> substitutions, index |-> index, glyphId |-> glyphId]
  /\ ret = <<>>
  /\ NoObjects

ResolveGlyph ==
  /\ pc = "call"
  /\ ~IsArray(call.glyphId)
  /\ ret' = getSubstitutionAtPosition(call.substitutions, Lookups, call.index,
                                      call.glyphId.lo)
  /\ pc' = "done"
  /\ UNCHANGED <<call, heap, currentEntries, position, phase, lookupRecords,
                 rulesDone, stepsDone, last, rules>>
  /\ UNCHANGED objects

ResolveRange ==
  /\ pc = "call"
  /\ IsArray(call.glyphId)
  /\ ret' = getSubstitutionAtPositionRange(call.substitutions, Lookups, call.index,
                                           call.glyphId)
  /\ pc' = "done"
  /\ UNCHANGED <<call, heap, currentEntries, position, phase, lookupRecords,
                 rulesDone, stepsDone, last, rules>>
  /\ UNCHANGED objects

NextResolve == ResolveGlyph \/ ResolveRange

SpecResolve == InitResolve /\ [][NextResolve]_vars

----------------------------------------------------------------------------
(* The resolver applied to records that were not validated: a record may   *)
(* name the index Len(Lookups), one past the table.                        *)

UnvalidatedRecords ==
  { SubstitutionLookupRecord(s, l) : s \in 0..MaxIndex, l \in 0..Len(Lookups) }

InitUnvalidated ==
  /\ TreeIdle
  /\ pc = "call"
  /\ \E substitutions \in SeqsUpTo(UnvalidatedRecords, MaxRecords),
        index \in 0..MaxIndex, glyphId \in QuerySpecs :
       call = [substitutions |-> substitutions, index |-> index, glyphId |-> glyphId]
  /\ ret = <<>>
  /\ NoObjects

ResolveGlyphUnvalidated ==
  /\ pc = "call"
  /\ ~IsArray(call.glyphId)
  /\ ret' = IF getSubstitutionAtPositionThrows(call.substitutions, Lookups,
                                               call.index, call.glyphId.lo)
            THEN [thrown |-> TRUE, value |-> null]
            ELSE [thrown |-> FALSE,
                  value |-> getSubstitutionAtPosition(call.substitutions, Lookups,
                                                      call.index, call.glyphId.lo)]
  /\ pc' = "done"
  /\ UNCHANGED <<call, heap, currentEntries, position, phase, lookupRecords,
                 rulesDone, stepsDone, last, rules>>
  /\ UNCHANGED objects

ResolveRangeUnvalidated ==
  /\ pc = "call"
  /\ IsArray(call.glyphId)
  /\ ret' = IF getSubstitutionAtPositionRangeThrows(call.substitutions, Lookups,
                                                    call.index, call.glyphId)
            THEN [thrown |-> TRUE, value |-> <<>>]
            ELSE [thrown |-> FALSE,
                  value |-> getSubstitutionAtPositionRange(call.substitutions, Lookups,
                                                           call.index, call.glyphId)]
  /\ pc' = "done"
  /\ UNCHANGED <<call, heap, currentEntries, position, phase, lookupRecords,
                 rulesDone, stepsDone, last, rules>>
  /\ UNCHANGED objects

NextUnvalidated == ResolveGlyphUnvalidated \/ ResolveRangeUnvalidated

SpecUnvalidated == InitUnvalidated /\ [][NextUnvalidated]_vars

----------------------------------------------------------------------------
(* Color (ColorUtilities.ts).  A 32-bit number is held as two 16-bit limbs, *)
(* the number being hi * 2^16 + lo with 0 <= lo < 2^16; hi is negative for  *)
(* a negative int32.                                                        *)

FractionSteps == 2

Limb == 2^16

RECURSIVE BitOr(_, _)
BitOr(a, b) ==
  IF a = 0 THEN b
  ELSE IF b = 0 THEN a
  ELSE (IF a % 2 = 1 \/ b % 2 = 1 THEN 1 ELSE 0) + 2 * BitOr(a \div 2, b \div 2)

RECURSIVE BitAnd(_, _)
BitAnd(a, b) ==
  IF a = 0 \/ b = 0 THEN 0
  ELSE (IF a % 2 = 1 /\ b % 2 = 1 THEN 1 ELSE 0) + 2 * BitAnd(a \div 2, b \div 2)

\* ToInt32 of the 32 bits hi16, lo16.
Int32(hi16, lo16) ==
  [hi |-> IF hi16 >= Limb \div 2 THEN hi16 - Limb ELSE hi16, lo |-> lo16]

\* ToUint32: what x >>> 0 gives.
ToUint32(w) == [hi |-> w.hi % Limb, lo |-> w.lo]

\* x << n for an integer 0 <= x < 2^16 and n in {0, 8, 16, 24}.
ShiftLeft(x, n) ==
  LET p == x * 2^(n % 16)
  IN  IF n >= 16 THEN Int32(p % Limb, 0)
                 ELSE Int32((p \div Limb) % Limb, p % Limb)

\* a | b
OrWord(a, b) == Int32(BitOr(a.hi % Limb, b.hi % Limb), BitOr(a.lo, b.lo))

\* w >>> n for n in {8, 16, 24}: fits one integer.
UnsignedShiftRight(w, n) ==
  LET u == ToUint32(w)
  IN  IF n >= 16 THEN u.hi \div 2^(n - 16)
                 ELSE u.hi * 2^(16 - n) + u.lo \div 2^n

\* new Color(red, green, blue, opacity)
Color(red, green, blue, opacity) ==
  [red |-> red, green |-> green, blue |-> blue, opacity |-> opacity]

\* new Color(rgba)
ColorFromRGBA(rgba) ==
  Color(BitAnd(UnsignedShiftRight(rgba, 24), 255),
        BitAnd(UnsignedShiftRight(rgba, 16), 255),
        BitAnd(UnsignedShiftRight(rgba, 8), 255),
        BitAnd(rgba.lo, 255))

PackedBits(this) ==
  OrWord(OrWord(OrWord(ShiftLeft(this.red, 24), ShiftLeft(this.green, 16)),
                ShiftLeft(this.blue, 8)),
         ShiftLeft(this.opacity, 0))

\* Mutant: the int32 of the bits, without >>> 0.
toRGBASigned(this) == PackedBits(this)

toRGBA(this) == ToUint32(PackedBits(this))

Min(a, b) == IF a < b THEN a ELSE b

\* Math.round(num / den) for num >= 0, den > 0: halves go up.
Round(num, den) == (2 * num + den) \div (2 * den)

\* The fraction is f / FractionSteps.
mix(this, otherColor, f) ==
  LET rightFraction == f
      channel(a, b) == Min(255, Round(f * a + rightFraction * b, FractionSteps))
  IN  Color(channel(this.red, otherColor.red),
            channel(this.green, otherColor.green),
            channel(this.blue, otherColor.blue),
            Min(255, Round(f * this.opacity + rightFraction * otherColor.opacity,
                           255 * FractionSteps)))

Components == {0, 1, 128, 255}

Colors == { Color(r, g, b, o) : r \in Components, g \in Components,
                                b \in Components, o \in Components }

OtherColors == { Color(0, 0, 0, 255), Color(255, 255, 255, 255), Color(10, 20, 30, 0) }

InitColor ==
  /\ TreeIdle
  /\ pc = "call"
  /\ \E this \in Colors, otherColor \in OtherColors, f \in 0..FractionSteps :
       call = [this |-> this, otherColor |-> otherColor, fraction |-> f]
  /\ ret = <<>>
  /\ NoObjects

Mix ==
  /\ pc = "call"
  /\ ret' = [color |-> mix(call.this, call.otherColor, call.fraction)]
  /\ pc' = "mixed"
  /\ UNCHANGED <<call, heap, currentEntries, position, phase, lookupRecords,
                 rulesDone, stepsDone, last, rules>>
  /\ UNCHANGED objects

ToRGBA ==
  /\ pc = "call"
  /\ ret' = [rgba |-> toRGBA(call.this)]
  /\ pc' = "packed"
  /\ UNCHANGED <<call, heap, currentEntries, position, phase, lookupRecords,
                 rulesDone, stepsDone, last, rules>>
  /\ UNCHANGED objects

FromRGBA ==
  /\ pc = "packed"
  /\ ret' = [rgba |-> ret.rgba, color |-> ColorFromRGBA(ret.rgba)]
  /\ pc' = "unpacked"
  /\ UNCHANGED <<call, heap, currentEntries, position, phase, lookupRecords,
                 rulesDone, stepsDone, last, rules>>
  /\ UNCHANGED objects

NextColor == Mix \/ ToRGBA \/ FromRGBA

SpecColor == InitColor /\ [][NextColor]_vars

----------------------------------------------------------------------------
(* TextInputPopOver (TextInputPopOver.ts).  object holds the fields of the  *)
(* pop-over: the mode, the text of the line edit and of the combo box,      *)
(* whether the window is shown, whether a close event of the window is      *)
(* still to be delivered, and #resolveFunc as the identity of the promise   *)
(* it resolves (null when it is null).  A promise is                        *)
(* [state, value, calls, entered]: calls counts the calls of its resolve    *)
(* function, entered is the text taken by the last Enter while the promise  *)
(* was the one in #resolveFunc.                                             *)

MaxShows == 2

undefined == "<undefined>"

Texts == {"", "a", "b"}

NewPromise == [state |-> "pending", value |-> undefined, calls |-> 0,
               entered |-> undefined]

ActiveText(o) == IF o.mode = "COMBO_BOX" THEN o.comboBox ELSE o.lineEdit

\* The variables of the lookup-tree compiler and of the pure functions.
TreeUnused ==
  UNCHANGED <<pc, call, ret, heap, currentEntries, position, phase,
                 lookupRecords, rulesDone, stepsDone, last, rules>>

InitPopOver ==
  /\ TreeIdle
  /\ pc = "events" /\ call = <<>> /\ ret = <<>>
  /\ object = [mode |-> "TEXT", lineEdit |-> "", comboBox |-> "",
               visible |-> FALSE, closeDue |-> FALSE, resolveFunc |-> null]
  /\ later = <<>>
  /\ promises = <<>>
  /\ disk = {}

\* show(window, options): options.value is value, options.suggestions is
\* empty or not.
Show ==
  /\ Len(promises) < MaxShows
  /\ \E value \in {"", "a"}, suggestions \in BOOLEAN :
       object' = [object EXCEPT
                    !.mode = IF suggestions THEN "COMBO_BOX" ELSE "TEXT",
                    !.comboBox = IF suggestions THEN value ELSE @,
                    !.lineEdit = IF suggestions THEN @ ELSE value,
                    !.visible = TRUE,
                    !.resolveFunc = Len(promises) + 1]
  /\ promises' = Append(promises, NewPromise)
  /\ UNCHANGED <<later, disk>>
  /\ TreeUnused

\* The user edits the text of the input that is shown.
Type ==
  /\ object.visible
  /\ \E text \in Texts \ {ActiveText(object)} :
       object' = IF object.mode = "COMBO_BOX"
                 THEN [object EXCEPT !.comboBox = text]
                 ELSE [object EXCEPT !.lineEdit = text]
  /\ UNCHANGED <<later, promises, disk>>
  /\ TreeUnused

\* #sendResult(value): hide() and doLater(callback).
sendResult(o, queue, value) ==
  [object |-> [o EXCEPT !.visible = FALSE], later |-> Append(queue, value)]

\* #handleKeyPress with Enter or Return on the input that is shown.  Hiding
\* the window may or may not bring a close event of it later.
Enter ==
  /\ object.visible
  /\ LET sent == sendResult(object, later, ActiveText(object))
     IN /\ \E due \in BOOLEAN : object' = [sent.object EXCEPT !.closeDue = due]
        /\ later' = sent.later
  /\ promises' = IF object.resolveFunc = null THEN promises
                 ELSE [promises EXCEPT ![object.resolveFunc].entered =
                         ActiveText(object)]
  /\ UNCHANGED disk
  /\ TreeUnused

\* #onClose: the window's close event.
Close ==
  /\ object.visible \/ object.closeDue
  /\ LET sent == sendResult(object, later, undefined)
     IN /\ object' = [sent.object EXCEPT !.closeDue = FALSE]
        /\ later' = sent.later
  /\ UNCHANGED <<promises, disk>>
  /\ TreeUnused

\* The callback of doLater runs: resolveFunc(value), a TypeError that is
\* caught and logged when #resolveFunc is null.
RunLater ==
  /\ later # <<>>
  /\ LET value == Head(later)
         resolveFunc == object.resolveFunc
     IN /\ object' = [object EXCEPT !.resolveFunc = null]
        /\ promises' =
             IF resolveFunc = null THEN promises
             ELSE [promises EXCEPT
                     ![resolveFunc].calls = @ + 1,
                     ![resolveFunc].state = "resolved",
                     ![resolveFunc].value =
                        IF promises[resolveFunc].state = "pending" THEN value ELSE @]
  /\ later' = Tail(later)
  /\ UNCHANGED disk
  /\ TreeUnused

NextPopOver == Show \/ Type \/ Enter \/ Close \/ RunLater

\* The event loop runs every callback given to doLater, and a pop-over that
\* is shown is dismissed by Enter or closed.
SpecPopOver ==
  /\ InitPopOver
  /\ [][NextPopOver]_vars
  /\ WF_vars(RunLater)
  /\ WF_vars(Enter \/ Close)

----------------------------------------------------------------------------
(* BulkFileStorage (BulkFileStorage.ts).  object holds #storageMap, from    *)
(* identifier to the BulkFile registered under it, a BulkFile being its     *)
(* reference count and its file path, and the number of bulk files made so  *)
(* far (the random identifiers are fresh: the next one is created + 1).     *)
(* call is the last call of the storage with the map before it.             *)

MaxFiles == 3

MaxRefs == 3

Identifiers == 1..MaxFiles

\* new BulkFile(metadata, fullPath), and its ref() and deref().
BulkFile(filePath) == [refCount |-> 0, filePath |-> filePath]

BulkFileRef(bulkFile) == [bulkFile EXCEPT !.refCount = @ + 1]

BulkFileDeref(bulkFile) == [bulkFile EXCEPT !.refCount = @ - 1]

\* null where a BulkFile is expected: no file path.
NoBulkFile == [refCount |-> 0, filePath |-> null]

MapDelete(m, k) == [x \in DOMAIN m \ {k} |-> m[x]]

InitStorage ==
  /\ TreeIdle
  /\ pc = "events" /\ ret = <<>>
  /\ call = [op |-> "new", identifier |-> null, before |-> <<>>]
  /\ object = [storageMap |-> <<>>, created |-> 0]
  /\ later = <<>>
  /\ promises = <<>>
  /\ disk = {}

StorageFrame ==
  UNCHANGED <<pc, ret, heap, currentEntries, position, phase, lookupRecords,
              rulesDone, stepsDone, last, rules, later, promises>>

\* createBulkFile(metadata): the file is made at fullPath and registered with
\* one reference.
CreateBulkFile ==
  /\ object.created < MaxFiles
  /\ LET internalFileIdentifier == object.created + 1
         fullPath == object.created + 1
         bulkFile == BulkFileRef(BulkFile(fullPath))
     IN /\ object' = [storageMap |-> MapSet(object.storageMap,
                                            internalFileIdentifier, bulkFile),
                      created |-> object.created + 1]
        /\ disk' = disk \cup {fullPath}
        /\ call' = [op |-> "createBulkFile", identifier |-> internalFileIdentifier,
                    before |-> object.storageMap]
  /\ StorageFrame

\* ref(identifier)
Ref ==
  /\ \E identifier \in Identifiers :
       /\ identifier \in DOMAIN object.storageMap =>
            object.storageMap[identifier].refCount < MaxRefs
       /\ object' = IF identifier \notin DOMAIN object.storageMap THEN object
                    ELSE [object EXCEPT !.storageMap[identifier] = BulkFileRef(@)]
       /\ call' = [op |-> "ref", identifier |-> identifier,
                   before |-> object.storageMap]
  /\ UNCHANGED disk
  /\ StorageFrame

\* #deleteBulkFile(identifier): [storageMap, disk] after it.
deleteBulkFile(storageMap, files, identifier) ==
  [storageMap |-> MapDelete(storageMap, identifier),
   disk |-> files \ {storageMap[identifier].filePath}]

\* deref(identifier)
Deref ==
  /\ \E identifier \in Identifiers :
       /\ IF identifier \notin DOMAIN object.storageMap
          THEN UNCHANGED <<object, disk>>
          ELSE LET dereferenced == [object.storageMap EXCEPT
                                      ![identifier] = BulkFileDeref(@)]
                   deleted == deleteBulkFile(dereferenced, disk, identifier)
               IN /\ object' = [object EXCEPT !.storageMap = deleted.storageMap]
                  /\ disk' = deleted.disk
       /\ call' = [op |-> "deref", identifier |-> identifier,
                   before |-> object.storageMap]
  /\ StorageFrame

\* getBulkFileByIdentifier(identifier)
getBulkFileByIdentifier(storageMap, identifier) ==
  IF identifier \notin DOMAIN storageMap THEN NoBulkFile ELSE storageMap[identifier]

NextStorage == CreateBulkFile \/ Ref \/ Deref

SpecStorage == InitStorage /\ [][NextStorage]_vars

----------------------------------------------------------------------------
(* ListPicker's ContentModel (ListPicker.ts).  object holds #allEntries,    *)
(* #visibleEntries, #searchText and #isReverse; an EntryMetadata is its     *)
(* entry's id and its three scores.  rankList is not part of the sources:   *)
(* it gives any candidates any scores.                                      *)

MaxPicker == 2

EntryIds == {"p", "q", "r"}

SearchTexts == {"", " ", "x"}

\* searchText.trim()
Trim(text) == IF text = " " THEN "" ELSE text

ScoreSets == [score : {1, 2}, score2 : {0, 1}, score3 : {0, 1}]

EntryMetadata(id) == [id |-> id, score |-> 0, score2 |-> 0, score3 |-> 0]

cmpScore(a, b) ==
  IF a.score = b.score
  THEN IF a.score2 = b.score2
       THEN IF a.score3 = b.score3
            THEN 0
            ELSE IF a.score3 < b.score3 THEN -1 ELSE 1
       ELSE IF a.score2 < b.score2 THEN -1 ELSE 1
  ELSE IF a.score < b.score THEN -1 ELSE 1

reverseCmpScore(a, b) == cmpScore(b, a)

\* Array.prototype.sort with cmpScore or reverseCmpScore: a stable sort, by
\* insertion of each element after those that do not come after it.
Compare(a, b, isReverse) == IF isReverse THEN reverseCmpScore(a, b) ELSE cmpScore(a, b)

RECURSIVE sort(_, _, _, _)
sort(entries, i, sorted, isReverse) ==
  IF i > Len(entries) THEN sorted
  ELSE LET x == entries[i]
           k == Cardinality({ n \in 1..Len(sorted) : Compare(sorted[n], x, isReverse) <= 0 })
           placed == SubSeq(sorted, 1, k) \o <<x>> \o SubSeq(sorted, k + 1, Len(sorted))
       IN IF Len(placed) > 0 THEN sort(entries, i + 1, placed, isReverse) ELSE placed

Reversed(s) == [n \in 1..Len(s) |-> s[Len(s) + 1 - n]]

\* The outcomes of rankList(searchText, candidates): for each candidate index
\* either no result or a result with scores.
NoResult == [score |-> 0, score2 |-> 0, score3 |-> 0]

RankLists(n) == [1..n -> ScoreSets \cup {NoResult}]

\* #filterEntries(entries, searchText) with the outcome results of rankList:
\* the entries with their scores set, and the array returned.
filterEntries(entries, searchText, isReverse, results) ==
  IF Trim(searchText) = ""
  THEN LET scored == [n \in 1..Len(entries) |-> [entries[n] EXCEPT !.score = n - 1]]
       IN [entries |-> scored,
           returned |-> IF ~isReverse THEN scored ELSE Reversed(scored)]
  ELSE LET scored == [n \in 1..Len(entries) |->
                        IF results[n] = NoResult THEN entries[n]
                        ELSE [entries[n] EXCEPT !.score = results[n].score,
                                                !.score2 = results[n].score2,
                                                !.score3 = results[n].score3]]
       IN [entries |-> scored, returned |-> sort(scored, 1, <<>>, isReverse)]

\* #updateVisibleEntries()
updateVisibleEntries(o, results) ==
  LET filtered == filterEntries(o.allEntries, o.searchText, o.isReverse, results)
  IN [o EXCEPT !.allEntries = filtered.entries, !.visibleEntries = filtered.returned]

InitPicker ==
  /\ TreeIdle
  /\ pc = "events" /\ call = <<>> /\ ret = <<>>
  /\ object = [allEntries |-> <<>>, visibleEntries |-> <<>>, searchText |-> "",
               isReverse |-> FALSE]
  /\ later = <<>>
  /\ promises = <<>>
  /\ disk = {}

PickerFrame == TreeUnused /\ UNCHANGED <<later, promises, disk>>

\* The entry lists given to setEntries: distinct ids.
EntryLists ==
  { ids \in SeqsUpTo(EntryIds, MaxPicker) :
      \A m, n \in 1..Len(ids) : ids[m] = ids[n] => m = n }

\* setEntries(fieldTypes, entries); hasText: fieldTypes contains FieldType.TEXT.
SetEntries ==
  /\ \E ids \in EntryLists, hasText \in BOOLEAN :
       IF ids = <<>>
       THEN object' = [object EXCEPT !.allEntries = <<>>]
       ELSE IF ~hasText
       THEN UNCHANGED object
       ELSE \E results \in RankLists(Len(ids)) :
              object' = updateVisibleEntries(
                          [object EXCEPT !.allEntries =
                             [n \in 1..Len(ids) |-> EntryMetadata(ids[n])]],
                          results)
  /\ PickerFrame

\* setSearch(searchText)
SetSearch ==
  /\ \E searchText \in SearchTexts, results \in RankLists(Len(object.allEntries)) :
       object' = updateVisibleEntries([object EXCEPT !.searchText = searchText], results)
  /\ PickerFrame

\* setReverse(reverse)
SetReverse ==
  /\ \E reverse \in BOOLEAN, results \in RankLists(Len(object.allEntries)) :
       object' = updateVisibleEntries([object EXCEPT !.isReverse = reverse], results)
  /\ PickerFrame

NextPicker == SetEntries \/ SetSearch \/ SetReverse

SpecPicker == InitPicker /\ [][NextPicker]_vars

----------------------------------------------------------------------------
(* Claims about dedupGlyphs (SpecDedup) *)

GlyphEq(a, b) == a.isArray = b.isArray /\ a.lo = b.lo /\ a.hi = b.hi

FirstIndex(seq, x) ==
  CHOOSE i \in 1..Len(seq) :
    GlyphEq(seq[i], x) /\ \A j \in 1..(i - 1) : ~GlyphEq(seq[j], x)

HasDuplicate(seq) == \E i, j \in 1..Len(seq) : i < j /\ GlyphEq(seq[i], seq[j])

\* C1: the list dedupGlyphs returns (1) holds no two equal elements, singles
\* being equal iff numerically equal and ranges iff both bounds are equal,
\* (2) holds exactly the distinct values of the input, and (3) orders them by
\* the position of their first occurrence in the input.
C1_DedupContract ==
  pc = "done" =>
    /\ ~HasDuplicate(ret)
    /\ \A i \in 1..Len(call.glyphs) : \E k \in 1..Len(ret) : GlyphEq(ret[k], call.glyphs[i])
    /\ \A k \in 1..Len(ret) : \E i \in 1..Len(call.glyphs) : GlyphEq(ret[k], call.glyphs[i])
    /\ \A k, l \in 1..Len(ret) :
         k < l => FirstIndex(call.glyphs, ret[k]) < FirstIndex(call.glyphs, ret[l])

\* A list with a repeated range, and two ranges with the same low bound, deduplicated.
C1_Witness ==
  /\ pc = "done"
  /\ \E i, j \in 1..Len(call.glyphs) :
       i < j /\ IsArray(call.glyphs[i]) /\ GlyphEq(call.glyphs[i], call.glyphs[j])
  /\ \E k, l \in 1..Len(ret) :
       k # l /\ IsArray(ret[k]) /\ IsArray(ret[l]) /\ ret[k].lo = ret[l].lo
  /\ Len(ret) < Len(call.glyphs)

\* C9: dedupGlyphs is idempotent, dedupGlyphs(dedupGlyphs(L)) being
\* dedupGlyphs(L) element by element; a list with no duplicates, and any list
\* of length 0 or 1, is returned with the same elements in the same order.
C9_DedupIdempotent ==
  /\ pc = "again" => ret = call.glyphs
  /\ (pc = "done" /\ (Len(call.glyphs) < 2 \/ ~HasDuplicate(call.glyphs)))
       => ret = call.glyphs

\* The second application, to the output of a list that had duplicates.
C9_Witness ==
  /\ pc = "again"
  /\ HasDuplicate(call.input)
  /\ Len(call.glyphs) >= 2
  /\ ret = call.glyphs

----------------------------------------------------------------------------
(* Claims about the resolver (SpecResolve) *)

Applicable(substitutions, index) ==
  { i \in 1..Len(substitutions) : substitutions[i].sequenceIndex = index }

SubtablesOf(record) == Lookups[record.lookupListIndex + 1].subtables

\* The <<record, subtable>> places of the scan, and their order.
Places(substitutions, index) ==
  UNION { { <<i, j>> : j \in 1..Len(SubtablesOf(substitutions[i])) } :
          i \in Applicable(substitutions, index) }

Before(a, b) == a[1] < b[1] \/ (a[1] = b[1] /\ a[2] < b[2])

OutputAt(substitutions, pl, glyphId) ==
  getIndividualSubstitutionGlyph(SubtablesOf(substitutions[pl[1]])[pl[2]], glyphId)

Hits(substitutions, index, glyphId) ==
  { pl \in Places(substitutions, index) : OutputAt(substitutions, pl, glyphId) # null }

\* C2: getSubstitutionAtPosition considers only the records whose
\* sequenceIndex is the position resolved, in record order and each lookup's
\* subtables in order, and returns the first non-null output: of two lookups
\* that substitute the glyph the first in record order wins, and the result is
\* null when no applicable subtable substitutes the glyph.
C2_FirstLookupWins ==
  (pc = "done" /\ ~IsArray(call.glyphId)) =>
    LET hits == Hits(call.substitutions, call.index, call.glyphId.lo)
    IN IF hits = {} THEN ret = null
       ELSE \E first \in hits :
              /\ \A other \in hits : other = first \/ Before(first, other)
              /\ ret = OutputAt(call.substitutions, first, call.glyphId.lo)

\* Two applicable lookups give the glyph different outputs, and a record of
\* another position is skipped.
C2_Witness ==
  /\ pc = "done"
  /\ ~IsArray(call.glyphId)
  /\ LET hits == Hits(call.substitutions, call.index, call.glyphId.lo)
     IN \E a, b \in hits :
          /\ a[1] < b[1]
          /\ OutputAt(call.substitutions, a, call.glyphId.lo)
               # OutputAt(call.substitutions, b, call.glyphId.lo)
          /\ ret = OutputAt(call.substitutions, a, call.glyphId.lo)

\* C5: in the scan of the applicable lookups in record order, a subtable whose
\* mapping for the range gives a non-null output to every glyph of the range
\* has that mapping returned as the result of the resolution (stated for the
\* first subtable scanned).
C5_AllSubstitutedAccepted ==
  (pc = "done" /\ IsArray(call.glyphId)
     /\ Applicable(call.substitutions, call.index) # {}) =>
    LET first == CHOOSE i \in Applicable(call.substitutions, call.index) :
                   \A k \in Applicable(call.substitutions, call.index) : i <= k
        sub == getRangeSubstitutionGlyphs(
                 SubtablesOf(call.substitutions[first])[1], call.glyphId)
    IN everyNotNull(sub) => ret = sub

----------------------------------------------------------------------------
(* Claims about the tree (Spec) *)

ParentOf(c) == last.before[c.parent]

LeafCount(entry) ==
  Cardinality({ m \in 1..Len(currentEntries) : currentEntries[m].entry = entry })

IsLeaf(entry, substitutions) ==
  \E m \in 1..Len(currentEntries) :
    currentEntries[m] = EntryMeta(entry, substitutions)

\* The rule's lookups at the position map glyph 65 to 66 and leave 70 alone.
Maps65To66Only(records, index) ==
  /\ Places(records, index) # {}
  /\ \A pl \in Places(records, index) :
       /\ OutputAt(records, pl, 65) = 66
       /\ OutputAt(records, pl, 70) = null

C3_Case ==
  /\ last.kind = "input"
  /\ last.position = 0
  /\ last.before = << EntryMeta(Root, <<>>) >>
  /\ { last.glyphs[i] : i \in 1..Len(last.glyphs) } = { Single(65), Single(70) }
  /\ Maps65To66Only(lookupRecords, 0)

\* C3: for a rule whose lookup at input position 0 maps glyph 65 to 66 and
\* does not map glyph 70, one input step at position 0 from the root with
\* candidates {65, 70} yields exactly two leaves: the node under key 65 of the
\* root's forward individual map with substitutions [66], and the node under
\* key 70 with substitutions [null].
C3_SubstitutionAtFirstPosition ==
  C3_Case =>
    LET individual == heap[Root].forward.individual
    IN /\ {65, 70} \subseteq DOMAIN individual
       /\ individual[65] # individual[70]
       /\ Len(currentEntries) = 2
       /\ IsLeaf(individual[65], <<66>>)
       /\ IsLeaf(individual[70], <<null>>)

C3_Witness == C3_Case /\ Len(currentEntries) = 2

InputPrefix(rule, k) ==
  /\ Len(rule.steps) >= k
  /\ \A n \in 1..k : rule.steps[n].kind = "input"

Substitutions(leaves) == [m \in 1..Len(leaves) |-> leaves[m].substitutions]

Entries(leaves) == [m \in 1..Len(leaves) |-> leaves[m].entry]

SamePrefix(a, b, k) ==
  /\ InputPrefix(a, k)
  /\ InputPrefix(b, k)
  /\ \A n \in 1..k :
       /\ a.steps[n].glyphs = b.steps[n].glyphs
       /\ Substitutions(a.steps[n].leaves) = Substitutions(b.steps[n].leaves)

\* C4: when two rules are compiled one after the other into the same root and
\* their input candidates and substitutions are identical for their first k
\* input positions, the nodes reached by those first k forward transitions are
\* the same node identities for both rules.
C4_TreeSharing ==
  \A a, b \in 1..Len(rules) :
    \A k \in 1..MaxSteps :
      (a < b /\ SamePrefix(rules[a], rules[b], k)) =>
        \A n \in 1..k :
          Entries(rules[a].steps[n].leaves) = Entries(rules[b].steps[n].leaves)

Covers(key, g) == key.lo <= g /\ g <= key.hi

\* The records at the position reference the lookup that maps all of [10,20]
\* and the lookup that maps only [15,17].
FullAndPartialLookups(records, index) ==
  { records[i].lookupListIndex : i \in Applicable(records, index) } = {2, 3}

C6_Case ==
  /\ last.kind = "input"
  /\ FullAndPartialLookups(lookupRecords, last.position)
  /\ \E n \in 1..Len(last.calls) : last.calls[n].glyph = Range(10, 20)

\* C6: when the records at a position reference a lookup that maps every glyph
\* of [10,20] and a lookup that maps only [15,17], resolving [10,20] there
\* yields at least two branches, those covering [15,17] with non-null outputs
\* and those covering the remainder with null output, and the input step
\* creates one leaf per branch.
C6_RangeSplitting ==
  C6_Case =>
    LET subs == getSubstitutionAtPositionRange(lookupRecords, Lookups,
                                               last.position, Range(10, 20))
    IN /\ Len(subs) >= 2
       /\ \A g \in 10..20 :
            /\ Cardinality({ k \in 1..Len(subs) : Covers(subs[k][1], g) }) = 1
            /\ \A k \in 1..Len(subs) :
                 Covers(subs[k][1], g) =>
                   IF g \in 15..17 THEN subs[k][2] # null ELSE subs[k][2] = null
       /\ \A k \in 1..Len(subs) : \E g \in 10..20 : Covers(subs[k][1], g)
       /\ \A n \in 1..Len(last.calls) :
            LET c == last.calls[n]
            IN c.glyph = Range(10, 20) =>
                 /\ Len(c.result) = Len(subs)
                 /\ \A k \in 1..Len(subs) :
                      /\ c.result[k].substitution = subs[k][2]
                      /\ c.result[k].entry > Len(last.heapBefore)
                      /\ LeafCount(c.result[k].entry) = 1
                      /\ IsLeaf(c.result[k].entry,
                                Append(ParentOf(c).substitutions, subs[k][2]))

C6_Witness ==
  /\ C6_Case
  /\ \E m \in 1..Len(currentEntries) :
       /\ Len(currentEntries[m].substitutions) = 1
       /\ currentEntries[m].substitutions[1] = 101

\* No applicable record, or no applicable subtable with a partial mapping.
Fallback(records, index, range) ==
  \A pl \in Places(records, index) :
    everyNotNull(getRangeSubstitutionGlyphs(
      SubtablesOf(records[pl[1]])[pl[2]], range))

C7_Case(n) ==
  /\ last.kind = "input"
  /\ n \in 1..Len(last.calls)
  /\ IsArray(last.calls[n].glyph)
  /\ Fallback(lookupRecords, last.position, last.calls[n].glyph)

C8_Case ==
  /\ pc = "idle"
  /\ rulesDone >= 1
  /\ last.kind = "start"

\* C8: compiling a rule with zero input positions (and no backtrack or
\* lookahead positions) leaves the leaf generation equal to the initial one,
\* exactly one terminal entry, the tree root itself with an empty substitution
\* sequence, and leaves the root's forward and reverse branch-points as they were.
C8_NoCandidateRule ==
  C8_Case =>
    /\ currentEntries = << EntryMeta(Root, <<>>) >>
    /\ heap[Root] = last.heapBefore[Root]
    /\ heap = last.heapBefore

\* An empty rule compiled after a rule that gave the root a forward branch-point.
C8_Witness ==
  /\ C8_Case
  /\ rulesDone >= 2
  /\ heap[Root].forward.present

Children(h, n) ==
  { h[n].forward.individual[g] : g \in DOMAIN h[n].forward.individual }
    \cup { h[n].forward.range[k].entry : k \in 1..Len(h[n].forward.range) }
    \cup { h[n].reverse.individual[g] : g \in DOMAIN h[n].reverse.individual }
    \cup { h[n].reverse.range[k].entry : k \in 1..Len(h[n].reverse.range) }

RECURSIVE ReachableFrom(_, _, _)
ReachableFrom(h, frontier, seen) ==
  IF frontier = {} THEN seen
  ELSE LET next == (UNION { Children(h, n) : n \in frontier }) \ seen
       IN ReachableFrom(h, next, seen \cup next)

Reachable(h) == ReachableFrom(h, {Root}, {Root})

\* C10: the tree only grows: every node reachable from the root (through
\* forward or reverse branch-points) before a step is still reachable from
\* the root after it; no step removes a node or a transition.
C10_TreeOnlyGrows == [][Reachable(heap) \subseteq Reachable(heap')]_vars


----------------------------------------------------------------------------
(* Claims about faults (SpecUnvalidated) *)

BadRecords(substitutions, index) ==
  { i \in Applicable(substitutions, index) :
      ~InTable(Lookups, substitutions[i].lookupListIndex) }

\* The record substitutes the glyph, or gives the range a partial mapping: the
\* scan returns at it.
ReturnsAt(substitutions, i, glyphId) ==
  /\ InTable(Lookups, substitutions[i].lookupListIndex)
  /\ \E j \in 1..Len(SubtablesOf(substitutions[i])) :
       IF IsArray(glyphId)
       THEN ~everyNotNull(getRangeSubstitutionGlyphs(
               SubtablesOf(substitutions[i])[j], glyphId))
       ELSE getIndividualSubstitutionGlyph(
               SubtablesOf(substitutions[i])[j], glyphId.lo) # null

\* No applicable lookup gives any glyph of glyphId an output.
NothingSubstitutes(substitutions, index, glyphId) ==
  \A i \in Applicable(substitutions, index) :
    /\ InTable(Lookups, substitutions[i].lookupListIndex)
    /\ \A j \in 1..Len(SubtablesOf(substitutions[i])) :
         \A g \in glyphId.lo..glyphId.hi :
           getIndividualSubstitutionGlyph(SubtablesOf(substitutions[i])[j], g) = null

NullResult(glyphId) == IF IsArray(glyphId) THEN << <<glyphId, null>> >> ELSE null

NoSubstitutionIsNoFault ==
  NothingSubstitutes(call.substitutions, call.index, call.glyphId) =>
    /\ ~ret.thrown
    /\ ret.value = NullResult(call.glyphId)

\* C11 as stated: resolving where no applicable lookup substitutes returns a
\* null result without a fault, and resolving at a position that has a record
\* whose lookupListIndex is outside the lookups table propagates a fault.
C11_FaultWheneverPresent ==
  pc = "done" =>
    /\ NoSubstitutionIsNoFault
    /\ BadRecords(call.substitutions, call.index) # {} => ret.thrown

\* C11 amended: the fault is propagated exactly when the scan comes to the
\* record outside the table, no earlier record of the position having made it
\* return; "no substitution" is a null result without a fault.
C11_FaultWhenReached ==
  pc = "done" =>
    /\ NoSubstitutionIsNoFault
    /\ ret.thrown <=>
         \E i \in BadRecords(call.substitutions, call.index) :
           \A k \in Applicable(call.substitutions, call.index) :
             k < i => ~ReturnsAt(call.substitutions, k, call.glyphId)

\* A fault for a glyph and, elsewhere, a record outside the table that an
\* earlier record keeps the scan from reaching.
C11_Witness ==
  /\ pc = "done"
  /\ BadRecords(call.substitutions, call.index) # {}
  /\ \E k \in Applicable(call.substitutions, call.index) :
       ReturnsAt(call.substitutions, k, call.glyphId)
  /\ ~ret.thrown
  /\ ret.value # NullResult(call.glyphId)


----------------------------------------------------------------------------
(* Claims about Color (SpecColor) *)

SameRGB(a, b) == a.red = b.red /\ a.green = b.green /\ a.blue = b.blue

\* C13: mix weights the two colours complementarily: fraction 0 gives the red,
\* green and blue of this colour, fraction 1 those of otherColor.
C13_MixComplementary ==
  pc = "mixed" =>
    /\ call.fraction = 0 => SameRGB(ret.color, call.this)
    /\ call.fraction = FractionSteps => SameRGB(ret.color, call.otherColor)

\* C14: toRGBA is the non-negative number red*2^24 + green*2^16 + blue*2^8 +
\* opacity (high limb red*2^8 + green, low limb blue*2^8 + opacity), and a
\* Color made from that number has the same four components.
C14_PackingRoundTrip ==
  /\ pc \in {"packed", "unpacked"} =>
       /\ ret.rgba.hi = call.this.red * 2^8 + call.this.green
       /\ ret.rgba.lo = call.this.blue * 2^8 + call.this.opacity
  /\ pc = "unpacked" => ret.color = call.this

\* A colour whose packed bits have the sign bit set has gone round.
C14_Witness ==
  /\ pc = "unpacked"
  /\ call.this.red >= 128
  /\ call.this.green = 1
  /\ ret.color = call.this


----------------------------------------------------------------------------
(* Claims about the steps (Spec) *)

BranchChildren(branch) ==
  { branch.individual[g] : g \in DOMAIN branch.individual }
    \cup { branch.range[k].entry : k \in 1..Len(branch.range) }

BeforeEntries == { last.before[m].entry : m \in 1..Len(last.before) }

CreatedInStep(n) == n > Len(last.heapBefore) /\ n <= Len(heap)

\* C15: an input step replaces the forward branch-point of every current leaf
\* by an empty one before extending it: after the step the leaf's forward
\* branch-point holds only children created in this step, and no forward child
\* it had before is still in it.
C15_InputStepReset ==
  last.kind = "input" =>
    \A e \in BeforeEntries :
      /\ heap[e].forward.present
      /\ \A n \in BranchChildren(heap[e].forward) : CreatedInStep(n)
      /\ BranchChildren(heap[e].forward)
           \cap BranchChildren(last.heapBefore[e].forward) = {}

\* An input step on a leaf that had forward children, and has new ones now.
C15_Witness ==
  /\ last.kind = "input"
  /\ \E e \in BeforeEntries :
       /\ BranchChildren(last.heapBefore[e].forward) # {}
       /\ BranchChildren(heap[e].forward) # {}

\* The branch-point a step of the kind extends.
StepBranch(h, e) == IF last.kind = "backtrack" THEN h[e].reverse ELSE h[e].forward

RangeCandidates == { g \in { last.glyphs[i] : i \in 1..Len(last.glyphs) } : IsArray(g) }

\* The individual glyph IDs the last step inserted under each current leaf:
\* its single candidates and, in an input step, the single glyphs that the
\* resolution of a range candidate splits off.
InsertedKeys ==
  { last.glyphs[i].lo : i \in { k \in 1..Len(last.glyphs) : ~IsArray(last.glyphs[k]) } }
    \cup
  (IF last.kind = "input"
   THEN UNION { LET subs == getSubstitutionAtPositionRange(
                              lookupRecords, Lookups, last.position, range)
                IN { subs[k][1].lo : k \in { x \in 1..Len(subs) : ~IsArray(subs[x][1]) } }
                : range \in RangeCandidates }
   ELSE {})

\* C16: in every step kind, inserting an individual glyph ID into a
\* branch-point's individual map binds the key to a brand-new empty node, also
\* when the key had a child: the previous child is no longer under that key.
C16_IndividualOverwrite ==
  last.kind \in {"backtrack", "input", "lookahead"} =>
    \A e \in BeforeEntries : \A g \in InsertedKeys :
      LET individual == StepBranch(heap, e).individual
          previous == StepBranch(last.heapBefore, e).individual
      IN /\ g \in DOMAIN individual
         /\ CreatedInStep(individual[g])
         /\ heap[individual[g]] = NewEntry
         /\ g \in DOMAIN previous => individual[g] # previous[g]

\* A backtrack or lookahead step inserts a key that had a child.
C16_Witness ==
  /\ last.kind \in {"backtrack", "lookahead"}
  /\ \E e \in BeforeEntries : \E g \in InsertedKeys :
       /\ g \in DOMAIN StepBranch(last.heapBefore, e).individual
       /\ g \in DOMAIN StepBranch(heap, e).individual


\* The key the k-th result of the call was created for.
CreatedFor(c, k) ==
  IF ~IsArray(c.glyph) THEN c.glyph
  ELSE getSubstitutionAtPositionRange(lookupRecords, Lookups, last.position,
                                      c.glyph)[k][1]

LinkedUnder(branch, key, entry) ==
  IF IsArray(key)
  THEN \E x \in 1..Len(branch.range) :
         branch.range[x] = [range |-> key, entry |-> entry]
  ELSE key.lo \in DOMAIN branch.individual /\ branch.individual[key.lo] = entry

\* C17: every leaf an input step returns is linked into the tree: its entry is
\* the node stored in the parent leaf's forward branch-point under the
\* individual glyph or the range it was created for, also for the leaves of a
\* split range; so every returned leaf of a reachable parent is reachable
\* from the root.
C17_ReturnedLeavesLinked ==
  last.kind = "input" =>
    \A n \in 1..Len(last.calls) :
      LET c == last.calls[n]
      IN \A k \in 1..Len(c.result) :
           /\ IsLeaf(c.result[k].entry,
                     Append(ParentOf(c).substitutions, c.result[k].substitution))
           /\ LinkedUnder(heap[ParentOf(c).entry].forward, CreatedFor(c, k),
                          c.result[k].entry)
           /\ ParentOf(c).entry \in Reachable(heap) =>
                c.result[k].entry \in Reachable(heap)


\* The leaf returned for current leaf i and deduplicated candidate j by a
\* backtrack or lookahead step.
LeafFor(i, j) == currentEntries[(i - 1) * Len(dedupGlyphs(last.glyphs)) + j]

\* The branch-point old of current leaf i was kept and extended into branch:
\* the earlier range pairs stay, followed by one pair per range candidate in
\* candidate order; every single candidate's key is bound to its new node, and
\* the other earlier keys are bound as before.
Extended(old, branch, i) ==
  LET deduped == dedupGlyphs(last.glyphs)
      ranges == { j \in 1..Len(deduped) : IsArray(deduped[j]) }
      singles == (1..Len(deduped)) \ ranges
      rank(j) == Cardinality({ x \in ranges : x <= j })
  IN /\ branch.present
     /\ Len(branch.range) = Len(old.range) + Cardinality(ranges)
     /\ SubSeq(branch.range, 1, Len(old.range)) = old.range
     /\ \A j \in ranges :
          branch.range[Len(old.range) + rank(j)] =
            [range |-> deduped[j], entry |-> LeafFor(i, j).entry]
     /\ DOMAIN branch.individual =
          DOMAIN old.individual \cup { deduped[j].lo : j \in singles }
     /\ \A j \in singles : branch.individual[deduped[j].lo] = LeafFor(i, j).entry
     /\ \A g \in DOMAIN old.individual :
          g \notin { deduped[j].lo : j \in singles } =>
            branch.individual[g] = old.individual[g]

\* One new node per (current leaf, candidate) pair, returned in that order
\* with the parent's substitution sequence.
OneLeafPerPair ==
  LET count == Len(last.before) * Len(dedupGlyphs(last.glyphs))
  IN /\ Len(currentEntries) = count
     /\ Len(heap) = Len(last.heapBefore) + count
     /\ \A m \in 1..count : CreatedInStep(currentEntries[m].entry)
     /\ \A m, n \in 1..count :
          currentEntries[m].entry = currentEntries[n].entry => m = n
     /\ \A n \in (Len(last.heapBefore) + 1)..Len(heap) : heap[n] = NewEntry
     /\ \A i \in 1..Len(last.before) :
          \A j \in 1..Len(dedupGlyphs(last.glyphs)) :
            LeafFor(i, j).substitutions = last.before[i].substitutions

\* C18: a backtrack step creates, for every current leaf and every
\* deduplicated candidate, one new node linked under the leaf's reverse
\* branch-point (made if absent, otherwise kept and extended), in the
\* individual map for a single glyph or at the end of the range list for a
\* range; it returns one leaf per pair with the parent's substitution sequence
\* unchanged, and changes no forward branch-point.
C18_BacktrackStep ==
  last.kind = "backtrack" =>
    /\ OneLeafPerPair
    /\ \A i \in 1..Len(last.before) :
         LET e == last.before[i].entry
         IN IF dedupGlyphs(last.glyphs) = <<>>
            THEN heap[e].reverse = last.heapBefore[e].reverse
            ELSE Extended(last.heapBefore[e].reverse, heap[e].reverse, i)
    /\ \A n \in 1..Len(last.heapBefore) :
         /\ heap[n].forward = last.heapBefore[n].forward
         /\ n \notin BeforeEntries => heap[n].reverse = last.heapBefore[n].reverse

\* A backtrack step on a leaf whose reverse branch-point held a range pair and
\* a key, and got a further pair.
C18_Witness ==
  /\ last.kind = "backtrack"
  /\ \E e \in BeforeEntries :
       /\ last.heapBefore[e].reverse.present
       /\ Len(last.heapBefore[e].reverse.range) >= 1
       /\ DOMAIN last.heapBefore[e].reverse.individual # {}
       /\ Len(heap[e].reverse.range) > Len(last.heapBefore[e].reverse.range)

\* C19: a lookahead step does the same on the forward branch-point: it makes
\* the branch-point only if absent and otherwise keeps its existing children,
\* adds one new child per (current leaf, deduplicated candidate) pair with
\* ranges appended in candidate order, returns those children with the
\* parent's substitution sequence unchanged, and changes no reverse
\* branch-point.
C19_LookaheadStep ==
  last.kind = "lookahead" =>
    /\ OneLeafPerPair
    /\ \A i \in 1..Len(last.before) :
         LET e == last.before[i].entry
         IN /\ IF dedupGlyphs(last.glyphs) = <<>>
               THEN heap[e].forward = last.heapBefore[e].forward
               ELSE Extended(last.heapBefore[e].forward, heap[e].forward, i)
            /\ BranchChildren(last.heapBefore[e].forward)
                 \subseteq BranchChildren(heap[e].forward)
    /\ \A n \in 1..Len(last.heapBefore) :
         /\ heap[n].reverse = last.heapBefore[n].reverse
         /\ n \notin BeforeEntries => heap[n].forward = last.heapBefore[n].forward


\* The number of input steps the rule has taken.
InputSteps(rule) ==
  Cardinality({ n \in 1..Len(rule.steps) : rule.steps[n].kind = "input" })

\* The leaves a step returns, from its calls: call by call, result by result.
RECURSIVE ReturnedBy(_, _)
ReturnedBy(calls, n) ==
  IF n > Len(calls) THEN <<>>
  ELSE [k \in 1..Len(calls[n].result) |->
          [entry |-> calls[n].result[k].entry,
           parent |-> calls[n].parent,
           glyph |-> calls[n].glyph,
           k |-> k]] \o ReturnedBy(calls, n + 1)

\* The output resolved at the step's input position for the glyph that the
\* k-th result of a call on glyph stands for.
Resolved(glyph, k) ==
  IF IsArray(glyph)
  THEN getSubstitutionAtPositionRange(lookupRecords, Lookups, last.position, glyph)[k][2]
  ELSE getSubstitutionAtPosition(lookupRecords, Lookups, last.position, glyph.lo)

\* C20: within a rule every leaf's substitution sequence has as many elements
\* as input steps have been taken; an input step's leaf has its parent's
\* sequence followed by the one output resolved at that input position for
\* its glyph (or null), and a backtrack or lookahead step's leaf has its
\* parent's sequence.
C20_SubstitutionSequence ==
  Len(rules) > 0 =>
    LET returned == ReturnedBy(last.calls, 1)
    IN /\ \A m \in 1..Len(currentEntries) :
            Len(currentEntries[m].substitutions) = InputSteps(rules[Len(rules)])
       /\ last.kind \in {"backtrack", "input", "lookahead"} =>
            /\ Len(currentEntries) = Len(returned)
            /\ \A m \in 1..Len(returned) :
                 LET parent == last.before[returned[m].parent].substitutions
                 IN /\ currentEntries[m].entry = returned[m].entry
                    /\ currentEntries[m].substitutions =
                         IF last.kind = "input"
                         THEN Append(parent, Resolved(returned[m].glyph, returned[m].k))
                         ELSE parent

\* A lookahead step after an input step that resolved a non-null output:
\* the leaf carries that one output.
C20_Witness ==
  /\ last.kind = "lookahead"
  /\ Len(currentEntries) > 0
  /\ \E m \in 1..Len(currentEntries) :
       /\ Len(currentEntries[m].substitutions) = 1
       /\ currentEntries[m].substitutions[1] # null


\* The places of node p's branch-points, each with the child it holds.
PlacesOf(h, p) ==
  { <<p, "forward", "individual", g, h[p].forward.individual[g]>> :
      g \in DOMAIN h[p].forward.individual }
    \cup { <<p, "forward", "range", k, h[p].forward.range[k].entry>> :
      k \in 1..Len(h[p].forward.range) }
    \cup { <<p, "reverse", "individual", g, h[p].reverse.individual[g]>> :
      g \in DOMAIN h[p].reverse.individual }
    \cup { <<p, "reverse", "range", k, h[p].reverse.range[k].entry>> :
      k \in 1..Len(h[p].reverse.range) }

AllPlaces(h) == UNION { PlacesOf(h, p) : p \in 1..Len(h) }

\* What is left of the parents S after taking away, again and again, those
\* that hold no child in S: the nodes on a cycle or leading to one.
RECURSIVE OnCycles(_, _)
OnCycles(links, S) ==
  LET childless == { n \in S : \A place \in links : place[1] = n => place[5] \notin S }
  IN IF childless = {} THEN S ELSE OnCycles(links, S \ childless)

\* C21: the structure stays a tree: every child a step links is a node
\* created in that step, no node is reachable from itself through forward or
\* reverse branch-points, and no node is held in two places (two parents, or
\* two keys of one parent).
C21_StaysATree ==
  LET links == AllPlaces(heap)
  IN /\ last.kind \in {"backtrack", "input", "lookahead"} =>
          \A place \in links \ AllPlaces(last.heapBefore) : CreatedInStep(place[5])
     /\ OnCycles(links, { place[1] : place \in links }) = {}
     /\ Cardinality({ place[5] : place \in links }) = Cardinality(links)

\* Two rules' steps have made a tree with forward and reverse children, one of
\* them under a split range.
C21_Witness ==
  /\ rulesDone >= 1
  /\ stepsDone = MaxSteps
  /\ last.kind = "input"
  /\ \E n \in 1..Len(last.calls) : Len(last.calls[n].result) >= 2
  /\ \E p \in 1..Len(heap) :
       /\ BranchChildren(heap[p].reverse) # {}
       /\ Len(heap[p].forward.range) >= 2


----------------------------------------------------------------------------
(* Claims about TextInputPopOver (SpecPopOver) *)

Issued(i) == Len(promises) >= i

PromiseResolved(i) == Issued(i) /\ promises[i].state = "resolved"

\* The resolve function of a promise has been called at most once, and a
\* resolved promise has the text its Enter took, or undefined.
ResolvedOnceWithResult ==
  \A i \in 1..Len(promises) :
    /\ promises[i].calls <= 1
    /\ promises[i].state = "resolved" =>
         /\ promises[i].calls = 1
         /\ promises[i].value \in {promises[i].entered, undefined}

\* C22: every promise show() returned is eventually resolved, exactly once,
\* with the text of the active input taken at Enter or with undefined at a
\* close, whatever the interleaving of show(), Enter and close.
C22_EveryPromiseResolved ==
  /\ []ResolvedOnceWithResult
  /\ \A i \in 1..MaxShows : Issued(i) ~> PromiseResolved(i)


----------------------------------------------------------------------------
(* Claims about BulkFileStorage (SpecStorage) *)

\* C23: a registered bulk file stays registered, its file on disk, as long as
\* its reference count is above zero: deref(identifier) removes the entry and
\* deletes the file only when the count has dropped to zero, so after ref(id)
\* and a single deref(id) getBulkFileByIdentifier(id) still returns the file.
C23_RefCounting ==
  (call.op = "deref" /\ call.identifier \in DOMAIN call.before) =>
    LET bulkFile == BulkFileDeref(call.before[call.identifier])
    IN bulkFile.refCount > 0 =>
         /\ getBulkFileByIdentifier(object.storageMap, call.identifier) = bulkFile
         /\ bulkFile.filePath \in disk


----------------------------------------------------------------------------
(* Claims about ListPicker (SpecPicker) *)

\* a has a higher score than b, ties broken by score2, then score3.
HigherScore(a, b) ==
  \/ a.score > b.score
  \/ a.score = b.score /\ a.score2 > b.score2
  \/ a.score = b.score /\ a.score2 = b.score2 /\ a.score3 > b.score3

\* C24: with a non-empty search text and reverse mode off, an entry with a
\* higher score (ties broken by score2, then score3) is shown before every
\* entry with a lower score; with reverse mode on the order is the opposite.
C24_HigherScoreFirst ==
  Trim(object.searchText) # "" =>
    \A m, n \in 1..Len(object.visibleEntries) :
      m < n =>
        IF object.isReverse
        THEN ~HigherScore(object.visibleEntries[m], object.visibleEntries[n])
        ELSE ~HigherScore(object.visibleEntries[n], object.visibleEntries[m])

====
